---- MODULE Spec2Model ----
(***************************************************************************)
(* Model of duoscience/client.py: DuoScienceClient, its request composer   *)
(* (chat / research / hypotheses + _prepare_files) and the generator       *)
(* _stream_task that POSTs a task and then relays the task's SSE stream.   *)
(*                                                                         *)
(* Python values are modelled as follows.                                  *)
(*   str            a TLA+ string; texts built with f-strings are          *)
(*                  sequences of their fragments, in order                 *)
(*   None           the value None below                                   *)
(*   dict           a function from its keys to its values                 *)
(*   exception      a record [cls, text]; isinstance follows Mro           *)
(*   decoded JSON   a record [type |-> "dict", fields |-> <dict>] or       *)
(*                  [type |-> "list"] (json.loads of the message data)     *)
(***************************************************************************)
EXTENDS Integers, Sequences, FiniteSets, TLC

\* ------------------------------------------------------------------ bounds
\* Number of messages the server pushes on one event stream.
MaxPush == 3

\* ------------------------------------------------------------ Python values
None == "<None>"

\* dict.get(key): the value, or None when the key is absent.
DictGet(d, k) == IF k \in DOMAIN d THEN d[k] ELSE None

\* Faulty variant of Falsy: only None counts, the empty string does not.
Falsy_OnlyNone(x) == x = None

\* Truthiness of a str-or-None value: `not x` holds for None and "".
Falsy(x) == x \in {None, ""}

Last(s) == s[Len(s)]

\* The classes an exception class inherits from (itself included).
Mro(cls) ==
    CASE cls = "requests.exceptions.ConnectionError" ->
           {cls, "requests.exceptions.RequestException", "OSError", "Exception"}
      [] cls = "requests.exceptions.Timeout" ->
           {cls, "requests.exceptions.RequestException", "OSError", "Exception"}
      [] cls = "requests.exceptions.HTTPError" ->
           {cls, "requests.exceptions.RequestException", "OSError", "Exception"}
      [] cls = "ConnectionError" -> {cls, "OSError", "Exception"}
      [] cls = "json.JSONDecodeError" -> {cls, "ValueError", "Exception"}
      [] cls = "AttributeError" -> {cls, "Exception"}
      [] cls = "ValueError" -> {cls, "Exception"}
      [] cls = "FileNotFoundError" -> {cls, "OSError", "Exception"}
      [] cls = "GeneratorExit" -> {cls, "BaseException"}
      [] OTHER -> {cls, "Exception"}

IsInstance(exc, base) == base \in Mro(exc.cls)

NoException == [cls |-> "", text |-> <<>>]

\* True when some fragment of the text is exactly `fragment`.
Contains(text, fragment) == \E i \in 1..Len(text) : text[i] = fragment

\* ---------------------------------------------------- client configuration
DefaultTimeout == 30
DefaultImageMaxDim == 1280
DefaultImageQuality == 80
MaxFiles == 10

\* str.rstrip('/') on a text whose fragments are path pieces and "/" marks.
RECURSIVE RStripSlash(_)
RStripSlash(url) ==
    IF url # <<>> /\ Last(url) = "/"
    THEN RStripSlash(SubSeq(url, 1, Len(url) - 1))
    ELSE url

\* DuoScienceClient.__init__ with the default keyword arguments.
NewClient(base_url) ==
    [ base_url               |-> RStripSlash(base_url),
      timeout                |-> DefaultTimeout,
      headers                |-> [Content_Type |-> "application/json"],
      auto_compress_images   |-> TRUE,
      image_max_dim          |-> DefaultImageMaxDim,
      image_quality          |-> DefaultImageQuality,
      convert_images_to_jpeg |-> TRUE ]

BaseUrls == { <<"http://127.0.0.1:8000">>, <<"http://127.0.0.1:8000", "/">> }

\* --------------------------------------------------------- request composer
DescriptorKeys == <<"filename", "content_type", "base64">>

\* Faulty variant of MissingKeys: the check for the mandatory keys is left out.
MissingKeys_NeverMissing(item) == <<>>

\* Faulty variant of MissingKeys: only the first absent key is reported.
MissingKeys_FirstOnly(item) ==
    LET all == SelectSeq(DescriptorKeys, LAMBDA k : k \notin DOMAIN item)
    IN  IF all = <<>> THEN <<>> ELSE <<Head(all)>>

\* [k for k in ("filename", "content_type", "base64") if k not in item]
MissingKeys(item) ==
    SelectSeq(DescriptorKeys, LAMBDA k : k \notin DOMAIN item)

\* mimetypes.guess_type(path)[0] or "", by the path's extension.
GuessMime(path) ==
    CASE path \in {"photo.png", "broken.png"} -> "image/png"
      [] path = "photo.min.jpg" -> "image/jpeg"
      [] path \in {"notes.txt", "missing.txt"} -> "text/plain"
      [] OTHER -> ""

IsImageMime(mime) == mime \in {"image/png", "image/jpeg"}

\* compress_image(path, ...): the compressed file's path, or a failure.
CompressImage(path) ==
    IF path = "photo.png"
    THEN [exc |-> NoException, value |-> "photo.min.jpg"]
    ELSE [exc |-> [cls |-> "OSError", text |-> <<"cannot identify image file">>],
          value |-> None]

\* load_file_as_payload(path): the file's descriptor, or a failure.
LoadFileAsPayload(path) ==
    IF path = "missing.txt"
    THEN [exc |-> [cls |-> "FileNotFoundError", text |-> <<path>>],
          value |-> <<>>]
    ELSE [exc |-> NoException,
          value |-> [filename |-> path, content_type |-> GuessMime(path),
                     base64 |-> "base64-of-file"]]

\* Faulty variant of PathToUse: no fallback, the compressor's result is used
\* even when the compressor failed.
PathToUse_NoFallback(self, item, utils) ==
    IF self.auto_compress_images /\ IsImageMime(GuessMime(item)) /\ utils
    THEN CompressImage(item).value
    ELSE item

\* The path handed to the loader for a str item (lines 98-113).
PathToUse(self, item, utils) ==
    IF self.auto_compress_images
       /\ IsImageMime(GuessMime(item)) /\ utils
       /\ CompressImage(item).exc = NoException
    THEN CompressImage(item).value
    ELSE item

\* One iteration of the loop of _prepare_files: the descriptor appended for
\* `item`, or the exception the iteration raises.  `utils` tells whether the
\* optional helpers of .utils were imported (lines 32-37).
PrepareItem(self, item, utils) ==
    CASE item.type = "str" ->
           IF ~utils
           THEN [exc |-> [cls |-> "ValueError",
                          text |-> <<"load_file_as_payload utility is not available; cannot convert file paths.">>],
                 value |-> <<>>]
           ELSE LoadFileAsPayload(PathToUse(self, item.path, utils))
      [] item.type = "dict" ->
           IF MissingKeys(item.dict) # <<>>
           THEN [exc |-> [cls |-> "ValueError",
                          text |-> <<"Invalid file object, missing keys: ">>
                                   \o MissingKeys(item.dict)],
                 value |-> <<>>]
           ELSE [exc |-> NoException, value |-> item.dict]
      [] OTHER ->
           [exc |-> [cls |-> "ValueError",
                     text |-> <<"files must be a list of file paths or dicts with filename/content_type/base64">>],
            value |-> <<>>]

\* The calls one iteration makes to the helpers of .utils, in order: the
\* compressor for an image when compression is enabled (lines 101-110), then
\* the loader (line 115).
ItemCalls(self, item, utils) ==
    IF item.type = "str" /\ utils
    THEN (IF self.auto_compress_images /\ IsImageMime(GuessMime(item.path))
          THEN <<[fn |-> "compress_image", path |-> item.path]>>
          ELSE <<>>)
         \o <<[fn |-> "load_file_as_payload",
               path |-> PathToUse(self, item.path, utils)]>>
    ELSE <<>>

RECURSIVE PrepareLoop(_, _, _, _)
PrepareLoop(self, files, utils, prepared) ==
    IF files = <<>>
    THEN [exc |-> NoException, is_none |-> FALSE, value |-> prepared]
    ELSE LET r == PrepareItem(self, Head(files), utils)
         IN  IF r.exc # NoException
             THEN [exc |-> r.exc, is_none |-> FALSE, value |-> <<>>]
             ELSE PrepareLoop(self, Tail(files), utils, Append(prepared, r.value))

\* The helper calls of the whole loop, up to the iteration that raises.
RECURSIVE PrepareCalls(_, _, _)
PrepareCalls(self, files, utils) ==
    IF files = <<>>
    THEN <<>>
    ELSE ItemCalls(self, Head(files), utils)
         \o (IF PrepareItem(self, Head(files), utils).exc # NoException
             THEN <<>>
             ELSE PrepareCalls(self, Tail(files), utils))

\* Faulty variant of TooManyFiles: the ceiling is off by one.
TooManyFiles_OffByOne(prepared) == Len(prepared) >= MaxFiles

\* len(prepared) > 10 (line 125).
TooManyFiles(prepared) == Len(prepared) > MaxFiles

\* DuoScienceClient._prepare_files.  `files` is a sequence of items; None and
\* the empty list, which `not files` does not tell apart, are both <<>>.
PrepareFiles(self, files, utils) ==
    IF files = <<>>
    THEN [exc |-> NoException, is_none |-> TRUE, value |-> <<>>]
    ELSE LET r == PrepareLoop(self, files, utils, <<>>)
         IN  IF r.exc # NoException THEN r
             ELSE IF TooManyFiles(r.value)
             THEN [exc |-> [cls |-> "ValueError",
                            text |-> <<"Too many files: maximum is 10 per request.">>],
                   is_none |-> FALSE, value |-> <<>>]
             ELSE r

\* Faulty variant of ContentGiven: an empty content counts as no content.
ContentGiven_Truthy(content) == ~Falsy(content)

\* content is not None (line 212).
ContentGiven(content) == content # None

\* The body shared by chat / research / hypotheses (lines 211-216): the
\* payload, or the exception _prepare_files raised.
ComposePayload(self, user_id, chat_id, content, files, kwargs, utils) ==
    LET base     == kwargs @@ ("user_id" :> user_id @@ "chat_id" :> chat_id)
        withc    == IF ContentGiven(content) THEN ("content" :> content) @@ base ELSE base
        prepared == PrepareFiles(self, files, utils)
    IN  IF prepared.exc # NoException
        THEN [exc |-> prepared.exc, value |-> withc]
        ELSE [exc |-> NoException,
              value |-> IF ~prepared.is_none /\ prepared.value # <<>>
                        THEN ("files" :> prepared.value) @@ withc
                        ELSE withc]

\* ----------------------------------------------------------- task initiator
\* What requests.post can come back with: a transport failure raised by the
\* library, or a response.
TransportFailures ==
    { [kind |-> "exception",
       exc  |-> [cls  |-> "requests.exceptions.ConnectionError",
                 text |-> <<"Max retries exceeded: connection refused">>]],
      [kind |-> "exception",
       exc  |-> [cls  |-> "requests.exceptions.Timeout",
                 text |-> <<"Read timed out.">>]] }

Response(code, reason, body) ==
    [kind |-> "response", status_code |-> code, reason |-> reason,
     json |-> body, text |-> "<response body>"]

Responses ==
    { Response(202, "Accepted", [task_id |-> "task-1"]),
      Response(202, "Accepted", [task_id |-> ""]),
      Response(202, "Accepted", [task_id |-> None]),
      Response(202, "Accepted", [detail |-> "queued"]),
      Response(200, "OK", [task_id |-> "task-1"]),
      Response(404, "Not Found", [detail |-> "no such endpoint"]),
      Response(500, "Internal Server Error", [detail |-> "crash"]) }

PostOutcomes == TransportFailures \cup Responses

\* response.raise_for_status(): HTTPError for 4xx and 5xx, nothing otherwise.
RaiseForStatus(url, response) ==
    IF 400 <= response.status_code /\ response.status_code < 500
    THEN [cls  |-> "requests.exceptions.HTTPError",
          text |-> <<ToString(response.status_code), " Client Error: ",
                     response.reason, " for url: ">> \o url]
    ELSE IF 500 <= response.status_code /\ response.status_code < 600
    THEN [cls  |-> "requests.exceptions.HTTPError",
          text |-> <<ToString(response.status_code), " Server Error: ",
                     response.reason, " for url: ">> \o url]
    ELSE NoException

\* The try block of step 1 (lines 149-162): the task_id it obtains, or the
\* exception raised inside it.
TryStartTask(start_url, outcome) ==
    IF outcome.kind = "exception"
    THEN [exc |-> outcome.exc, task_id |-> None]
    ELSE IF RaiseForStatus(start_url, outcome) # NoException
    THEN [exc |-> RaiseForStatus(start_url, outcome), task_id |-> None]
    ELSE IF outcome.status_code = 202
    THEN IF Falsy(DictGet(outcome.json, "task_id"))
         THEN [exc |-> [cls  |-> "ConnectionError",
                        text |-> <<"API Error: Server accepted the task but did not return a task_id.">>],
               task_id |-> DictGet(outcome.json, "task_id")]
         ELSE [exc |-> NoException, task_id |-> DictGet(outcome.json, "task_id")]
    ELSE [exc |-> [cls  |-> "ConnectionError",
                   text |-> <<"API Error: Failed to start task. Status: ",
                              ToString(outcome.status_code), ", Body: ",
                              outcome.text>>],
          task_id |-> None]

\* Faulty variant of CaughtAtStart: a handler that catches HTTPError only.
CaughtAtStart_OnlyHTTPError(exc) ==
    IsInstance(exc, "requests.exceptions.HTTPError")

\* except requests.exceptions.RequestException (line 163).
CaughtAtStart(exc) == IsInstance(exc, "requests.exceptions.RequestException")

\* Faulty variant of StartErrorEvent: the message leaves out str(e).
StartErrorEvent_NoDetail(exc) ==
    [type   |-> "dict",
     fields |-> [status  |-> "error",
                 message |-> <<"Connection Error: Failed to start task. ">>]]

\* The event yielded at line 165.
StartErrorEvent(exc) ==
    [type   |-> "dict",
     fields |-> [status  |-> "error",
                 message |-> <<"Connection Error: Failed to start task. ">>
                             \o exc.text]]

\* ------------------------------------------------------ event stream consumer
\* The data of the messages a server pushes.
KeepAlive == ""
DataTexts ==
    { KeepAlive,
      "{\"status\": \"running\"}",
      "{\"status\": \"queued\"}",
      "{\"status\": \"completed\"}",
      "{\"status\": \"error\"}",
      "{\"status\": \"failed\"}",
      "[1]",
      "{\"status\": " }

\* json.loads(event.data).
JsonLoads(data) ==
    CASE data = "{\"status\": \"running\"}" ->
           [exc |-> NoException,
            value |-> [type |-> "dict", fields |-> [status |-> "running"]]]
      [] data = "{\"status\": \"queued\"}" ->
           [exc |-> NoException,
            value |-> [type |-> "dict", fields |-> [status |-> "queued"]]]
      [] data = "{\"status\": \"completed\"}" ->
           [exc |-> NoException,
            value |-> [type |-> "dict", fields |-> [status |-> "completed"]]]
      [] data = "{\"status\": \"error\"}" ->
           [exc |-> NoException,
            value |-> [type |-> "dict", fields |-> [status |-> "error"]]]
      [] data = "{\"status\": \"failed\"}" ->
           [exc |-> NoException,
            value |-> [type |-> "dict", fields |-> [status |-> "failed"]]]
      [] data = "[1]" ->
           [exc |-> NoException, value |-> [type |-> "list"]]
      [] OTHER ->
           [exc |-> [cls |-> "json.JSONDecodeError",
                     text |-> <<"Expecting value">>],
            value |-> [type |-> "none"]]

\* Faulty variant of IsHeartbeat: no message is taken for a heartbeat.
IsHeartbeat_Never(event) == FALSE

\* `not event.data` (line 174).
IsHeartbeat(event) == event.data = ""

\* data.get("status") (line 182): only a dict has .get.
GetStatus(data) ==
    IF data.type = "dict"
    THEN [exc |-> NoException, value |-> DictGet(data.fields, "status")]
    ELSE [exc |-> [cls |-> "AttributeError",
                   text |-> <<"object has no attribute 'get'">>],
          value |-> None]

\* Faulty variant of IsTerminalStatus: only "completed" ends the loop.
IsTerminalStatus_OnlyCompleted(status) == status = "completed"

\* Faulty variant of IsTerminalStatus: any status but "running" ends the loop.
IsTerminalStatus_UnknownEndsLoop(status) == status # "running"

\* status in ["completed", "error", "failed"] (line 182).
IsTerminalStatus(status) == status \in {"completed", "error", "failed"}

\* Faulty variant of CaughtInStream: a handler for decoding errors only.
CaughtInStream_OnlyDecodeErrors(exc) == IsInstance(exc, "ValueError")

\* Faulty variant of CaughtInStream: a bare except, which also catches the
\* GeneratorExit of an abandoned generator.
CaughtInStream_BareExcept(exc) == TRUE

\* Faulty variant of CaughtInStream: a handler for connection errors only.
CaughtInStream_OnlyConnectionErrors(exc) == IsInstance(exc, "OSError")

\* except Exception (line 185).
CaughtInStream(exc) == IsInstance(exc, "Exception")

\* The event yielded at line 187.
StreamErrorEvent(exc) ==
    [type   |-> "dict",
     fields |-> [status  |-> "error",
                 message |-> <<"Streaming Error: The connection was lost. ">>
                             \o exc.text]]

\* What the SSE client raises when the connection cannot be opened or breaks.
ConnectionLostError ==
    [cls  |-> "requests.exceptions.ConnectionError",
     text |-> <<"Connection broken">>]

\* -------------------------------------------------------------------- state
VARIABLES
    client,     \* the DuoScienceClient object's attributes
    pc,         \* where the invocation is: "idle", "raised", "created",
                \* "connect", "reading", "yield_start_error", "yield_event",
                \* "yield_stream_error", "done"
    raised,     \* the exception that reached the caller (NoException if none)
    endpoint,   \* _stream_task's argument `endpoint`
    payload,    \* _stream_task's argument `payload`
    task_id,    \* _stream_task's local `task_id`
    yielded,    \* the events the caller has pulled so far, in order
    posts,      \* the POST requests sent, each with what came back, in order
    streams,    \* the URLs SSEClient was constructed with, in order
    conn,       \* the stream connection: "none", "open", "closed", "lost"
    inflight,   \* messages pushed by the server and not yet read
    received,   \* messages the for loop has read, in order
    call,       \* the arguments the caller invoked chat/research/hypotheses with
    loads,      \* the calls made to compress_image / load_file_as_payload
    pulls,      \* how many times the caller asked the generator for an event
    helpers,    \* whether the import of lines 32-37 found the helpers of .utils
    other       \* a second invocation on the same client, while it is not
                \* the one taking steps (see Switch)

vars == <<client, pc, raised, endpoint, payload, task_id, yielded, posts,
          streams, conn, inflight, received, call, loads, pulls, helpers,
          other>>

genvars == <<endpoint, payload, task_id, call, loads, pulls>>
netvars == <<posts, streams, conn, inflight, received>>
\* What invocations on one client share: the client object, the module globals
\* and each other's existence.
shared == <<client, helpers, other>>

\* ------------------------------------------------------------------- inputs
UserIds == {"u1"}
ChatIds == {"c1"}
Contents == {None, "hello"}
NoKwargs == [k \in {} |-> None]
KwargsInputs == {NoKwargs}
ReservedNames == {"user_id", "chat_id", "content", "files"}
NoCall ==
    [endpoint |-> None, user_id |-> None, chat_id |-> None, content |-> None,
     files |-> <<>>, kwargs |-> NoKwargs]
GoodDescriptor ==
    [filename |-> "a.txt", content_type |-> "text/plain", base64 |-> "aGk="]
FilesInputs ==
    { <<>>,
      <<[type |-> "dict", dict |-> GoodDescriptor]>>,
      <<[type |-> "dict", dict |-> [filename |-> "a.txt"]]>>,
      <<[type |-> "str", path |-> "photo.png"]>>,
      <<[type |-> "other"]>> }

\* An invocation that has not been made yet.
Idle ==
    [pc |-> "idle", raised |-> NoException, endpoint |-> None,
     payload |-> NoKwargs, task_id |-> None, yielded |-> <<>>, posts |-> <<>>,
     streams |-> <<>>, conn |-> "none", inflight |-> <<>>, received |-> <<>>,
     call |-> NoCall, loads |-> <<>>, pulls |-> 0]

Init ==
    /\ client \in {NewClient(b) : b \in BaseUrls}
    /\ pc = "idle"
    /\ raised = NoException
    /\ endpoint = None
    /\ payload = NoKwargs
    /\ task_id = None
    /\ yielded = <<>>
    /\ posts = <<>>
    /\ streams = <<>>
    /\ conn = "none"
    /\ inflight = <<>>
    /\ received = <<>>
    /\ call = NoCall
    /\ loads = <<>>
    /\ pulls = 0
    /\ helpers \in BOOLEAN
    /\ other = Idle

\* ------------------------------------------------------------ caller: invoke
\* chat / research / hypotheses (lines 189-280): compose the payload, then
\* create the generator; nothing of _stream_task runs yet.
InvokeWith(ep, contents, filesets, kwargsets) ==
    /\ pc = "idle"
    /\ \E user_id \in UserIds, chat_id \in ChatIds, content \in contents,
          kwargs \in kwargsets :
         \E files \in filesets :
           LET r == ComposePayload(client, user_id, chat_id, content, files,
                                   kwargs, helpers)
           IN  /\ call' = [endpoint |-> ep, user_id |-> user_id,
                           chat_id |-> chat_id, content |-> content,
                           files |-> files, kwargs |-> kwargs]
               /\ IF DOMAIN kwargs \cap ReservedNames # {}
                  THEN \* Python rejects the call: a keyword names a parameter
                       \* that already has a value (lines 189-196).
                       /\ pc' = "raised"
                       /\ raised' = [cls |-> "TypeError",
                                     text |-> <<"got multiple values for argument">>]
                       /\ UNCHANGED <<endpoint, payload, loads>>
                  ELSE /\ loads' = loads \o PrepareCalls(client, files, helpers)
                       /\ IF r.exc # NoException
                          THEN /\ pc' = "raised"
                               /\ raised' = r.exc
                               /\ UNCHANGED <<endpoint, payload>>
                          ELSE /\ pc' = "created"
                               /\ endpoint' = ep
                               /\ payload' = r.value
                               /\ UNCHANGED raised
    /\ UNCHANGED <<shared, task_id, yielded, pulls, netvars>>

Invoke(ep) == InvokeWith(ep, Contents, FilesInputs, KwargsInputs)

chat == Invoke("/chat/")
research == Invoke("/research/")
hypotheses == Invoke("/hypotheses/")

\* ------------------------------------------------- _stream_task, step by step
\* Faulty variant of SelfAfterStreamTask: the start URL is kept on the client.
SelfAfterStreamTask_KeepsStartUrl(self, ep) ==
    [self EXCEPT !.base_url = self.base_url \o <<ep>>]

\* What _stream_task does to self: it reads base_url, timeout, headers and
\* logger (lines 147-150, 170) and assigns no attribute.
SelfAfterStreamTask(self, ep) == self

\* First pull: step 1 (lines 146-166), up to the yield of line 165, the
\* escape of an exception the handler does not catch, or the end of step 1.
StartTaskWith(outcomes) ==
    /\ pc = "created"
    /\ \E outcome \in outcomes :
         LET start_url == client.base_url \o <<endpoint>>
             r == TryStartTask(start_url, outcome)
         IN  /\ posts' = Append(posts, [url |-> start_url, json |-> payload,
                                        headers |-> client.headers,
                                        timeout |-> client.timeout,
                                        outcome |-> outcome])
             /\ task_id' = r.task_id
             /\ IF r.exc = NoException
                THEN /\ pc' = "connect"
                     /\ UNCHANGED <<yielded, raised>>
                ELSE IF CaughtAtStart(r.exc)
                THEN /\ pc' = "yield_start_error"
                     /\ yielded' = Append(yielded, StartErrorEvent(r.exc))
                     /\ UNCHANGED raised
                ELSE /\ pc' = "raised"
                     /\ raised' = r.exc
                     /\ UNCHANGED yielded
    /\ client' = SelfAfterStreamTask(client, endpoint)
    /\ pulls' = pulls + 1
    /\ UNCHANGED <<helpers, other, endpoint, payload, call, loads, streams,
                   conn, inflight, received>>

StartTask == StartTaskWith(PostOutcomes)

\* An exception raised inside the try block of step 2 (lines 185-187).
StreamFault(exc) ==
    IF CaughtInStream(exc)
    THEN /\ pc' = "yield_stream_error"
         /\ yielded' = Append(yielded, StreamErrorEvent(exc))
         /\ UNCHANGED raised
    ELSE /\ pc' = "raised"
         /\ raised' = exc
         /\ UNCHANGED yielded

\* SSEClient(stream_url) (lines 170-172): the connection opens, or fails.
ConnectStream ==
    /\ pc = "connect"
    /\ streams' = Append(streams, client.base_url \o <<"/stream/", task_id>>)
    /\ \/ /\ conn' = "open"
          /\ pc' = "reading"
          /\ UNCHANGED <<yielded, raised>>
       \/ /\ conn' = "lost"
          /\ StreamFault(ConnectionLostError)
    /\ UNCHANGED <<shared, genvars, posts, inflight, received>>

\* Faulty variant of AfterYieldData: the generator does not wait for the next
\* pull and goes on reading the stream.
AfterYieldData_ReadsAhead == "reading"

\* yield data (line 179): the generator is suspended there, holding the event
\* for the caller, until the caller pulls again.
AfterYieldData == "yield_event"

\* One turn of `for event in client` (lines 173-179): the next pushed
\* message, the end of the iteration, or a fault of the connection.
NextEvent ==
    /\ pc = "reading"
    /\ IF inflight # <<>>
       THEN LET event == Head(inflight)
            IN  /\ inflight' = Tail(inflight)
                /\ received' = Append(received, event)
                /\ IF IsHeartbeat(event)
                   THEN UNCHANGED <<pc, yielded, raised>>
                   ELSE IF JsonLoads(event.data).exc # NoException
                   THEN StreamFault(JsonLoads(event.data).exc)
                   ELSE /\ pc' = AfterYieldData
                        /\ yielded' = Append(yielded, JsonLoads(event.data).value)
                        /\ UNCHANGED raised
       ELSE /\ conn \in {"closed", "lost"}
            /\ UNCHANGED <<inflight, received>>
            /\ IF conn = "closed"
               THEN /\ pc' = "done"
                    /\ UNCHANGED <<yielded, raised>>
               ELSE StreamFault(ConnectionLostError)
    /\ UNCHANGED <<shared, genvars, posts, streams, conn>>

\* The caller pulls again after the yield of line 179 (lines 181-184).
ResumeAfterEvent ==
    /\ pc = "yield_event"
    /\ LET s == GetStatus(Last(yielded))
       IN  IF s.exc # NoException
           THEN StreamFault(s.exc)
           ELSE /\ pc' = IF IsTerminalStatus(s.value) THEN "done" ELSE "reading"
                /\ UNCHANGED <<yielded, raised>>
    /\ pulls' = pulls + 1
    /\ UNCHANGED <<shared, endpoint, payload, task_id, call, loads, netvars>>

\* The caller pulls again after the yield of line 165 or of line 187: the
\* generator returns.
ResumeAfterError ==
    /\ pc \in {"yield_start_error", "yield_stream_error"}
    /\ pc' = "done"
    /\ pulls' = pulls + 1
    /\ UNCHANGED <<shared, raised, endpoint, payload, task_id, call, loads,
                   yielded, netvars>>

\* What close() throws into a suspended generator at its yield.
GeneratorExit == [cls |-> "GeneratorExit", text |-> <<>>]

\* The pulls at which the generator is suspended: created and not started, or
\* stopped at the yield of line 165, 179 or 187.
Suspended == {"created", "yield_start_error", "yield_event", "yield_stream_error"}

\* The caller abandons the sequence: close() on the generator, which is also
\* what dropping the last reference to it does.  GeneratorExit is thrown at
\* the yield; only the yield of line 179 is inside a try block (169-185).  A
\* handler that caught it would yield again (line 187), and close() would
\* then raise RuntimeError to the caller.
Abandon ==
    /\ pc \in Suspended
    /\ IF pc = "yield_event" /\ CaughtInStream(GeneratorExit)
       THEN /\ pc' = "raised"
            /\ raised' = [cls |-> "RuntimeError",
                          text |-> <<"generator ignored GeneratorExit">>]
       ELSE /\ pc' = "closed"
            /\ UNCHANGED raised
    /\ UNCHANGED <<shared, genvars, yielded, netvars>>

\* ------------------------------------------------------- server and network
Pushed == Len(received) + Len(inflight)

ServerPushWith(limit, datas) ==
    /\ conn = "open"
    /\ Pushed < limit
    /\ \E d \in datas : inflight' = Append(inflight, [data |-> d])
    /\ UNCHANGED <<shared, pc, raised, genvars, yielded, posts, streams, conn,
                   received>>

ServerPush == ServerPushWith(MaxPush, DataTexts)

ServerClose ==
    /\ conn = "open"
    /\ conn' = "closed"
    /\ UNCHANGED <<shared, pc, raised, genvars, yielded, posts, streams,
                   inflight, received>>

ConnectionLost ==
    /\ conn = "open"
    /\ conn' = "lost"
    /\ UNCHANGED <<shared, pc, raised, genvars, yielded, posts, streams,
                   inflight, received>>

Next ==
    \/ chat \/ research \/ hypotheses
    \/ StartTask \/ ConnectStream \/ NextEvent
    \/ ResumeAfterEvent \/ ResumeAfterError \/ Abandon
    \/ ServerPush \/ ServerClose \/ ConnectionLost

Spec == Init /\ [][Next]_vars

\* ------------------------------------------- the composer on its own: inputs
\* Arguments that exercise every branch of _prepare_files and of the payload
\* composition; the generator is then pulled once, so that the POST shows.
DictItem(keys) == [type |-> "dict", dict |-> [k \in keys |-> "value"]]
PathItem(path) == [type |-> "str", path |-> path]
GoodItem == [type |-> "dict", dict |-> GoodDescriptor]
Filled(n, item) == [i \in 1..n |-> item]

ComposeItems ==
    {DictItem(keys) : keys \in SUBSET {"filename", "content_type", "base64"}}
    \cup {DictItem({"filename", "content_type", "base64", "size"})}
    \cup {PathItem(p) : p \in {"photo.png", "broken.png", "notes.txt", "missing.txt"}}
    \cup {[type |-> "other"]}

ComposeFiles ==
    {<<>>}
    \cup {<<i>> : i \in ComposeItems}
    \cup {<<GoodItem, i>> : i \in ComposeItems}
    \cup {<<i, GoodItem>> : i \in ComposeItems}
    \cup {Filled(n, GoodItem) : n \in (MaxFiles - 1)..(MaxFiles + 2)}
    \cup {<<i>> \o Filled(MaxFiles - 1, GoodItem) : i \in ComposeItems}
    \cup {Filled(MaxFiles, GoodItem) \o <<i>> : i \in ComposeItems}

ComposeContents == {None, "", "hello"}

ComposeKwargs ==
    { NoKwargs,
      [domain |-> "bioscience"],
      [domain |-> "bioscience", effort |-> "low"],
      [user_id |-> "intruder"],
      [content |-> "smuggled"] }

ComposeChat ==
    InvokeWith("/chat/", ComposeContents, ComposeFiles, ComposeKwargs)
ComposeResearch ==
    InvokeWith("/research/", ComposeContents, ComposeFiles, ComposeKwargs)
ComposeHypotheses ==
    InvokeWith("/hypotheses/", ComposeContents, ComposeFiles, ComposeKwargs)

NextCompose ==
    \/ ComposeChat \/ ComposeResearch \/ ComposeHypotheses
    \/ StartTask \/ ResumeAfterError

SpecCompose == Init /\ [][NextCompose]_vars

\* ------------------------------------- two invocations on the same client
\* Each invocation is a generator of its own, with its own POST and its own
\* stream; `other` holds the one that is not running.  Switch hands the
\* thread of control from one to the other, at any step.
PairMaxPush == 1

Current ==
    [pc |-> pc, raised |-> raised, endpoint |-> endpoint, payload |-> payload,
     task_id |-> task_id, yielded |-> yielded, posts |-> posts,
     streams |-> streams, conn |-> conn, inflight |-> inflight,
     received |-> received, call |-> call, loads |-> loads, pulls |-> pulls]

Switch ==
    /\ other' = Current
    /\ pc' = other.pc
    /\ raised' = other.raised
    /\ endpoint' = other.endpoint
    /\ payload' = other.payload
    /\ task_id' = other.task_id
    /\ yielded' = other.yielded
    /\ posts' = other.posts
    /\ streams' = other.streams
    /\ conn' = other.conn
    /\ inflight' = other.inflight
    /\ received' = other.received
    /\ call' = other.call
    /\ loads' = other.loads
    /\ pulls' = other.pulls
    /\ UNCHANGED <<client, helpers>>

PairOutcomes ==
    { Response(202, "Accepted", [task_id |-> "task-1"]),
      Response(202, "Accepted", [task_id |-> "task-2"]),
      Response(202, "Accepted", [detail |-> "queued"]),
      Response(500, "Internal Server Error", [detail |-> "crash"]),
      [kind |-> "exception",
       exc  |-> [cls  |-> "requests.exceptions.Timeout",
                 text |-> <<"Read timed out.">>]] }

PairDataTexts ==
    { "{\"status\": \"running\"}", "{\"status\": \"completed\"}",
      "[1]", "{\"status\": " }

PairChat == InvokeWith("/chat/", {"hello"}, {<<>>}, KwargsInputs)
PairResearch == InvokeWith("/research/", {None}, {<<GoodItem>>}, KwargsInputs)
PairStart == StartTaskWith(PairOutcomes)
PairPush == ServerPushWith(PairMaxPush, PairDataTexts)

NextPair ==
    \/ PairChat \/ PairResearch
    \/ PairStart \/ ConnectStream \/ NextEvent
    \/ ResumeAfterEvent \/ ResumeAfterError
    \/ PairPush \/ ServerClose \/ ConnectionLost
    \/ Switch

SpecPair == Init /\ [][NextPair]_vars

\* =================================================================== claims
\* Vocabulary of the claims.
IsDictEvent(e) == e.type = "dict"
EventStatus(e) == IF IsDictEvent(e) THEN DictGet(e.fields, "status") ELSE None
IsErrorEvent(e) == EventStatus(e) = "error"
IsTerminalEvent(e) == EventStatus(e) \in {"completed", "error", "failed"}

\* An event made by the client itself at line 187, not decoded from a message.
IsSyntheticStreamError(e) ==
    /\ IsErrorEvent(e)
    /\ "message" \in DOMAIN e.fields
    /\ e.fields.message[1] = "Streaming Error: The connection was lost. "

\* The generator has been pulled at least once / what its POST came back with.
Started == posts # <<>>
PostOutcome == posts[1].outcome
GotResponse == Started /\ PostOutcome.kind = "response"
GotTransportFailure == Started /\ PostOutcome.kind = "exception"

\* The caller has the whole sequence: the generator returned, or was ended by
\* an exception that escaped it.
Exhausted == Started /\ pc \in {"done", "raised"}

\* The caller gave the sequence up before its end.
Abandoned == pc = "closed"

\* The received messages that are not keep-alives, and their decoded events.
RealMessages(msgs) == SelectSeq(msgs, LAMBDA m : m.data # KeepAlive)
DecodedEvents(msgs) ==
    [i \in 1..Len(RealMessages(msgs)) |-> JsonLoads(RealMessages(msgs)[i].data).value]
AllDecodable(msgs) ==
    \A i \in 1..Len(msgs) :
        msgs[i].data # KeepAlive => JsonLoads(msgs[i].data).exc = NoException

\* C1: for every valid invocation and every server behaviour, the sequence the
\* caller obtains by pulling until exhaustion is non-empty and its last event
\* has status completed, error or failed.
C1_SequenceEndsWithTerminalEvent ==
    Exhausted => /\ yielded # <<>>
                 /\ IsTerminalEvent(Last(yielded))

\* C2: once validation has passed, pulling events never raises to the caller:
\* every initiation failure and every stream failure is the final yielded
\* event.
C2_NothingEscapesStreamTask ==
    Started => /\ pc # "raised"
               /\ raised = NoException

\* C3: if the initiation POST returns any status other than 202 (200 as well
\* as 4xx and 5xx), the yielded sequence is exactly one event, with status
\* "error".
C3_Non202YieldsOneErrorEvent ==
    (GotResponse /\ PostOutcome.status_code # 202 /\ ~Abandoned)
        => /\ pc \in {"yield_start_error", "done"}
           /\ Len(yielded) = 1
           /\ IsErrorEvent(yielded[1])

\* C4: if the initiation POST returns 202 and the body has no task_id or an
\* empty one, the yielded sequence is exactly one event, with status "error".
C4_AcceptedWithoutHandleYieldsOneErrorEvent ==
    (GotResponse /\ PostOutcome.status_code = 202
                 /\ Falsy(DictGet(PostOutcome.json, "task_id"))
                 /\ ~Abandoned)
        => /\ pc \in {"yield_start_error", "done"}
           /\ Len(yielded) = 1
           /\ IsErrorEvent(yielded[1])

\* C5: if the initiation POST fails at transport level, the yielded sequence
\* is exactly one event with status "error" and a message, with the same keys
\* as the event of an application-level rejection, and nothing is raised.
C5_TransportFailureYieldsOneErrorEvent ==
    (GotTransportFailure /\ ~Abandoned)
        => /\ raised = NoException
           /\ pc \in {"yield_start_error", "done"}
           /\ Len(yielded) = 1
           /\ IsErrorEvent(yielded[1])
           /\ DOMAIN yielded[1].fields = {"status", "message"}
           /\ Len(yielded[1].fields.message) > 1
           /\ DOMAIN yielded[1].fields =
                DOMAIN StartErrorEvent(
                    RaiseForStatus(posts[1].url,
                        Response(500, "Internal Server Error",
                                 [detail |-> "crash"]))).fields

C5_Witness ==
    /\ GotTransportFailure
    /\ PostOutcome.exc.cls = "requests.exceptions.Timeout"
    /\ pc = "done"
    /\ Len(yielded) = 1

\* C6: if the initiation POST returns an HTTP error status such as 500, the
\* single yielded error event carries a message containing that status code.
C6_HttpErrorMessageNamesStatus ==
    (GotResponse /\ PostOutcome.status_code >= 400)
        => /\ Len(yielded) = 1
           /\ IsErrorEvent(yielded[1])
           /\ "message" \in DOMAIN yielded[1].fields
           /\ Contains(yielded[1].fields.message,
                       ToString(PostOutcome.status_code))

C6_Witness ==
    /\ GotResponse
    /\ PostOutcome.status_code = 500
    /\ pc = "done"
    /\ Len(yielded) = 1
    /\ Contains(yielded[1].fields.message, "500")

\* The for loop has read only decodable messages whose events are dicts with
\* a non-terminal status, and at least one such event.
OnlyNonTerminalEventsReceived ==
    /\ AllDecodable(received)
    /\ RealMessages(received) # <<>>
    /\ \A i \in 1..Len(RealMessages(received)) :
          /\ IsDictEvent(DecodedEvents(received)[i])
          /\ ~IsTerminalEvent(DecodedEvents(received)[i])

\* The generator is past the for loop: neither inside it nor suspended in it,
\* nor given up by the caller.
PastTheLoop ==
    streams # <<>> /\ pc \notin {"connect", "reading", "yield_event", "closed"}

\* C7: if the stream connection is lost after one or more non-terminal events
\* were yielded and before any terminal one, the sequence ends with exactly
\* one additional synthetic event with status "error", and nothing is yielded
\* after it.
C7_ConnectionLossAddsOneSyntheticError ==
    (PastTheLoop /\ conn = "lost" /\ inflight = <<>>
                 /\ OnlyNonTerminalEventsReceived)
        => /\ raised = NoException
           /\ pc \in {"yield_stream_error", "done"}
           /\ Len(yielded) = Len(DecodedEvents(received)) + 1
           /\ SubSeq(yielded, 1, Len(yielded) - 1) = DecodedEvents(received)
           /\ IsSyntheticStreamError(Last(yielded))

C7_Witness ==
    /\ pc = "done"
    /\ conn = "lost"
    /\ inflight = <<>>
    /\ OnlyNonTerminalEventsReceived
    /\ Len(yielded) = 3
    /\ EventStatus(yielded[1]) = "running"
    /\ IsSyntheticStreamError(yielded[3])

\* C8: if the event stream ends (the connection closes and the iteration
\* finishes) without a terminal-status event having been yielded, exactly one
\* synthetic event with status "error" is yielded before the sequence ends.
C8_CleanCloseAddsOneSyntheticError ==
    (PastTheLoop /\ conn = "closed" /\ inflight = <<>>
                 /\ AllDecodable(received)
                 /\ \A i \in 1..Len(RealMessages(received)) :
                       /\ IsDictEvent(DecodedEvents(received)[i])
                       /\ ~IsTerminalEvent(DecodedEvents(received)[i]))
        => /\ Len(yielded) = Len(DecodedEvents(received)) + 1
           /\ IsSyntheticStreamError(Last(yielded))

\* C9: after an event with status completed, error or failed has been
\* yielded, no further event is yielded, whatever the server pushes
\* afterwards: a terminal-status event occurs only in last position, hence
\* at most once.
C9_TerminalEventOnlyLast ==
    \A i \in 1..Len(yielded) :
        IsTerminalEvent(yielded[i]) => i = Len(yielded)

C9_Witness ==
    /\ pc = "done"
    /\ Len(yielded) = 2
    /\ EventStatus(yielded[2]) = "failed"
    /\ ~IsSyntheticStreamError(yielded[2])
    /\ inflight # <<>>
    /\ Head(inflight).data # KeepAlive

\* C10: a pushed message with empty data is never yielded and never ends the
\* sequence: reading one changes nothing the caller or the generator can see
\* (the events yielded, the generator's position, the exception raised), so a
\* run yields what it yields with the keep-alives removed.
C10_KeepAliveChangesNothing ==
    [][ (/\ pc = "reading"
         /\ inflight # <<>>
         /\ Head(inflight).data = KeepAlive
         /\ received' = Append(received, Head(inflight)))
        => (/\ yielded' = yielded
            /\ pc' = "reading"
            /\ raised' = raised
            /\ task_id' = task_id) ]_vars

C10_Witness ==
    /\ pc = "done"
    /\ Len(received) = 3
    /\ received[1].data # KeepAlive
    /\ received[2].data = KeepAlive
    /\ received[3].data # KeepAlive
    /\ Len(yielded) = 2
    /\ EventStatus(yielded[1]) = "running"
    /\ EventStatus(yielded[2]) = "completed"

\* The received messages that were decoded, and the events they decode to.
GoodMessages(msgs) ==
    SelectSeq(msgs, LAMBDA m : /\ m.data # KeepAlive
                               /\ JsonLoads(m.data).exc = NoException)
GoodEvents(msgs) ==
    [i \in 1..Len(GoodMessages(msgs)) |-> JsonLoads(GoodMessages(msgs)[i].data).value]

\* The events relayed from the stream: what was yielded, less the event the
\* client made itself when a fault ended the stream.
Relayed(events) ==
    IF events # <<>> /\ IsSyntheticStreamError(Last(events))
    THEN SubSeq(events, 1, Len(events) - 1)
    ELSE events

\* C11: the yielded events are exactly the decoded non-empty pushed messages,
\* in push order, up to and including the first terminal-status one (nothing
\* is read past it); an event with an unknown status is yielded unchanged and
\* neither stops the stream nor produces an error.
C11_EventsRelayedInOrder ==
    streams # <<>> =>
        /\ Relayed(yielded) = GoodEvents(received)
        /\ \A i \in 1..Len(received) :
              (/\ received[i].data # KeepAlive
               /\ JsonLoads(received[i].data).exc = NoException
               /\ IsTerminalEvent(JsonLoads(received[i].data).value))
                  => i = Len(received)
        /\ (/\ conn = "open"
            /\ ~Abandoned
            /\ received # <<>>
            /\ \A i \in 1..Len(GoodEvents(received)) :
                  /\ IsDictEvent(GoodEvents(received)[i])
                  /\ ~IsTerminalEvent(GoodEvents(received)[i])
            /\ AllDecodable(received))
              => /\ pc \in {"reading", "yield_event"}
                 /\ raised = NoException
                 /\ yielded = GoodEvents(received)

C11_Witness ==
    /\ pc = "done"
    /\ Len(received) = 3
    /\ Len(yielded) = 3
    /\ EventStatus(yielded[1]) = "queued"
    /\ EventStatus(yielded[2]) = "running"
    /\ EventStatus(yielded[3]) = "completed"
    /\ yielded = GoodEvents(received)

\* Vocabulary of the composer's claims, stated on the caller's arguments.
Invoked == call # NoCall
IsDescriptor(item) ==
    item.type = "dict" /\ {"filename", "content_type", "base64"} \subseteq DOMAIN item.dict
IsBadDescriptor(item) ==
    item.type = "dict" /\ ~({"filename", "content_type", "base64"} \subseteq DOMAIN item.dict)
IsOtherShape(item) == item.type \notin {"str", "dict"}
HasInvalidFiles(files) ==
    \/ \E i \in 1..Len(files) : IsBadDescriptor(files[i]) \/ IsOtherShape(files[i])
    \/ Len(files) > 10
OnlyDictsOrOther(files) == \A i \in 1..Len(files) : files[i].type # "str"
KwargsAccepted == DOMAIN call.kwargs \cap ReservedNames = {}

\* C12: every validation error (a descriptor missing a mandatory key, more
\* than 10 files, an item that is neither a path nor a mapping) is raised by
\* the chat/research/hypotheses call itself, before any network request, and
\* never appears as a yielded event.
C12_ValidationRaisedBeforeAnyRequest ==
    (Invoked /\ HasInvalidFiles(call.files))
        => /\ pc = "raised"
           /\ raised # NoException
           /\ posts = <<>>
           /\ streams = <<>>
           /\ yielded = <<>>
           /\ (OnlyDictsOrOther(call.files) /\ KwargsAccepted)
                 => raised.cls = "ValueError"

C12_Witness ==
    /\ Invoked
    /\ call.files = <<GoodItem, [type |-> "other"]>>
    /\ pc = "raised"
    /\ raised.cls = "ValueError"
    /\ posts = <<>>

\* The call returned a generator: composing raised nothing.
Accepted == Invoked /\ endpoint = call.endpoint
AllDescriptors(files) == \A i \in 1..Len(files) : IsDescriptor(files[i])
FilesSent(post) == IF "files" \in DOMAIN post.json THEN post.json["files"] ELSE <<>>

\* C13: a request with more than 10 files raises a validation fault and no
\* network call is attempted; a request with exactly 10 valid descriptors is
\* accepted; every payload that is sent carries at most 10 file descriptors.
C13_AtMostTenFiles ==
    /\ (Invoked /\ Len(call.files) > 10)
          => /\ pc = "raised"
             /\ raised # NoException
             /\ posts = <<>>
             /\ streams = <<>>
             /\ (AllDescriptors(call.files) /\ KwargsAccepted)
                   => raised = [cls |-> "ValueError",
                                text |-> <<"Too many files: maximum is 10 per request.">>]
    /\ (Invoked /\ Len(call.files) = 10 /\ AllDescriptors(call.files) /\ KwargsAccepted)
          => /\ Accepted
             /\ Len(payload["files"]) = 10
    /\ \A i \in 1..Len(posts) : Len(FilesSent(posts[i])) <= 10

C13_Witness ==
    /\ Invoked
    /\ Len(call.files) = 10
    /\ AllDescriptors(call.files)
    /\ Len(posts) = 1
    /\ Len(FilesSent(posts[1])) = 10

C13_WitnessRefused ==
    /\ Invoked
    /\ Len(call.files) = 11
    /\ AllDescriptors(call.files)
    /\ pc = "raised"

AbsentKeys(item) == {"filename", "content_type", "base64"} \ DOMAIN item.dict
FirstBadDescriptor(files, i) ==
    /\ i \in 1..Len(files)
    /\ IsBadDescriptor(files[i])
    /\ \A j \in 1..(i - 1) : IsDescriptor(files[j])
NamedKeys(exc) == {exc.text[k] : k \in 2..Len(exc.text)}

\* C14: a pre-built file descriptor that lacks one or more of the keys
\* filename, content_type, base64 makes composing raise a validation fault
\* whose message names exactly the absent keys; a descriptor that has all
\* three keys is passed into the payload unchanged.
C14_MissingKeysNamedExactly ==
    /\ \A i \in 1..Len(call.files) :
          (KwargsAccepted /\ FirstBadDescriptor(call.files, i))
             => /\ pc = "raised"
                /\ raised.cls = "ValueError"
                /\ Head(raised.text) = "Invalid file object, missing keys: "
                /\ NamedKeys(raised) = AbsentKeys(call.files[i])
                /\ Len(raised.text) = 1 + Cardinality(AbsentKeys(call.files[i]))
                /\ posts = <<>>
    /\ (Accepted /\ call.files # <<>>)
          => /\ Len(payload["files"]) = Len(call.files)
             /\ \A i \in 1..Len(call.files) :
                   IsDescriptor(call.files[i])
                      => payload["files"][i] = call.files[i].dict

C14_Witness ==
    /\ Invoked
    /\ call.files = <<GoodItem, DictItem({"content_type"})>>
    /\ pc = "raised"
    /\ raised.text = <<"Invalid file object, missing keys: ", "filename", "base64">>

C14_WitnessUnchanged ==
    /\ Accepted
    /\ call.files = <<DictItem({"filename", "content_type", "base64", "size"})>>
    /\ Len(posts) = 1
    /\ FilesSent(posts[1]) = <<call.files[1].dict>>

\* A step by which the caller's close() ends: the generator is closed, or
\* close() raises because the generator yielded again.
Abandoning ==
    /\ pc \in Suspended
    /\ \/ pc' = "closed"
       \/ pc' = "raised" /\ raised'.cls = "RuntimeError"

\* C15: the caller may abandon the sequence at any point after an event and
\* before a terminal one: abandoning yields no further event (no synthetic
\* error), raises nothing to the caller, reads no further pushed message and
\* sends no request to the server; and nothing of the kind happens later.
C15_AbandonIsSilent ==
    [][ /\ Abandoning
           => /\ pc' = "closed"
              /\ UNCHANGED <<yielded, raised, received, inflight, posts, streams>>
        /\ pc = "closed"
           => /\ pc' = "closed"
              /\ UNCHANGED <<yielded, raised, received, posts, streams>> ]_vars

C15_Witness ==
    /\ pc = "closed"
    /\ yielded # <<>>
    /\ IsDictEvent(Last(yielded))
    /\ ~IsTerminalEvent(Last(yielded))
    /\ inflight # <<>>
    /\ raised = NoException

\* A non-empty message whose data json.loads refuses.
IsUndecodable(m) == m.data # KeepAlive /\ JsonLoads(m.data).exc # NoException

\* C17: a non-empty pushed message whose data cannot be decoded is a stream
\* failure, not a skipped message: exactly one synthetic event with status
\* "error" is yielded in its place, after the events decoded before it, and
\* no message pushed after it is read or yielded.
C17_UndecodableMessageEndsStream ==
    \A i \in 1..Len(received) :
        IsUndecodable(received[i])
           => /\ i = Len(received)
              /\ raised = NoException
              /\ pc \in {"yield_stream_error", "done", "closed"}
              /\ Len(yielded) = Len(GoodEvents(received)) + 1
              /\ SubSeq(yielded, 1, Len(yielded) - 1) = GoodEvents(received)
              /\ IsSyntheticStreamError(Last(yielded))

C17_Witness ==
    /\ pc = "done"
    /\ Len(received) = 2
    /\ ~IsUndecodable(received[1])
    /\ IsUndecodable(received[2])
    /\ Len(yielded) = 2
    /\ EventStatus(yielded[1]) = "running"
    /\ IsSyntheticStreamError(yielded[2])
    /\ inflight # <<>>

\* C18: the event stream is opened at most once, and only after the single
\* initiation POST has returned status 202 with a non-empty task_id, on the
\* endpoint built from that task_id; when initiation fails in any way the
\* stream is never opened, and the POST is never retried.
C18_StreamOpenedOnceAfterAcceptedPost ==
    /\ Len(posts) <= 1
    /\ Len(streams) <= 1
    /\ streams # <<>>
          => /\ Len(posts) = 1
             /\ PostOutcome.kind = "response"
             /\ PostOutcome.status_code = 202
             /\ "task_id" \in DOMAIN PostOutcome.json
             /\ PostOutcome.json["task_id"] \notin {None, ""}
             /\ task_id = PostOutcome.json["task_id"]
             /\ streams[1] = client.base_url \o <<"/stream/", PostOutcome.json["task_id"]>>
    /\ (Started /\ ~( /\ PostOutcome.kind = "response"
                      /\ PostOutcome.status_code = 202
                      /\ ~Falsy(DictGet(PostOutcome.json, "task_id")) ))
          => /\ streams = <<>>
             /\ conn = "none"
             /\ received = <<>>

C18_Witness ==
    /\ pc = "done"
    /\ Len(posts) = 1
    /\ Len(streams) = 1
    /\ streams[1] = client.base_url \o <<"/stream/", "task-1">>
    /\ received # <<>>

C18_WitnessFailed ==
    /\ pc = "done"
    /\ GotResponse
    /\ PostOutcome.status_code = 404
    /\ streams = <<>>

\* C19: the composed payload has the key content exactly when the caller
\* passed a content other than None (an empty string is included), has the
\* key files exactly when at least one descriptor resulted, and always has the
\* caller's user_id and chat_id, which no extra keyword option can replace.
C19_PayloadKeys ==
    /\ Accepted
          => /\ ("content" \in DOMAIN payload) <=> (call.content # None)
             /\ call.content # None => payload["content"] = call.content
             /\ ("files" \in DOMAIN payload) <=> (call.files # <<>>)
             /\ call.files # <<>> => Len(payload["files"]) = Len(call.files)
             /\ {"user_id", "chat_id"} \subseteq DOMAIN payload
             /\ payload["user_id"] = call.user_id
             /\ payload["chat_id"] = call.chat_id
             /\ \A k \in DOMAIN call.kwargs : payload[k] = call.kwargs[k]
             /\ DOMAIN payload \subseteq
                   {"user_id", "chat_id", "content", "files"} \cup DOMAIN call.kwargs
             /\ \A i \in 1..Len(posts) : posts[i].json = payload
    /\ (Invoked /\ ~KwargsAccepted)
          => /\ ~Accepted
             /\ pc = "raised"
             /\ raised.cls = "TypeError"
             /\ posts = <<>>

C19_Witness ==
    /\ Accepted
    /\ call.content = ""
    /\ call.files = <<>>
    /\ call.kwargs = [domain |-> "bioscience", effort |-> "low"]
    /\ Len(posts) = 1
    /\ DOMAIN posts[1].json = {"user_id", "chat_id", "content", "domain", "effort"}
    /\ posts[1].json["content"] = ""

C19_WitnessRefused ==
    /\ Invoked
    /\ call.kwargs = [user_id |-> "intruder"]
    /\ pc = "raised"

IsImagePath(item) ==
    item.type = "str" /\ item.path \in {"photo.png", "broken.png"}
OthersAreDescriptors(files, i) ==
    \A j \in 1..Len(files) : j # i => IsDescriptor(files[j])
\* The path the loader must be given for an image: the compressor's result,
\* or the original path when the compressor failed.
LoaderPath(path) ==
    IF CompressImage(path).exc = NoException THEN CompressImage(path).value ELSE path

\* C20: for a path input that is an image, with compression enabled and the
\* helpers available, a failure of the compressor never aborts composing: the
\* loader is then called with the original path, and on compressor success
\* with the compressed path; in both cases exactly one descriptor, the
\* loader's, is added for that item.
C20_CompressorFailureFallsBack ==
    \A i \in 1..Len(call.files) :
        (/\ helpers /\ client.auto_compress_images /\ KwargsAccepted
         /\ IsImagePath(call.files[i])
         /\ OthersAreDescriptors(call.files, i))
           => /\ loads = << [fn |-> "compress_image", path |-> call.files[i].path],
                            [fn |-> "load_file_as_payload",
                             path |-> LoaderPath(call.files[i].path)] >>
              /\ Len(call.files) <= 10
                    => /\ Accepted
                       /\ Len(payload["files"]) = Len(call.files)
                       /\ payload["files"][i] =
                             LoadFileAsPayload(LoaderPath(call.files[i].path)).value

C20_Witness ==
    /\ helpers
    /\ Accepted
    /\ call.files = <<GoodItem, PathItem("broken.png")>>
    /\ loads = << [fn |-> "compress_image", path |-> "broken.png"],
                  [fn |-> "load_file_as_payload", path |-> "broken.png"] >>
    /\ Len(posts) = 1
    /\ Len(FilesSent(posts[1])) = 2
    /\ FilesSent(posts[1])[2]["filename"] = "broken.png"

C20_WitnessCompressed ==
    /\ helpers
    /\ Accepted
    /\ call.files = <<PathItem("photo.png")>>
    /\ loads[2].path = "photo.min.jpg"
    /\ payload["files"][1]["filename"] = "photo.min.jpg"

\* The synthetic event an invocation owes to the fault its own stream met:
\* an undecodable message, an event that is not a dict, or the loss of its
\* connection noticed before a terminal event.
OwnFaultEvents(inv) ==
    LET good == GoodEvents(inv.received)
    IN  IF inv.received # <<>> /\ IsUndecodable(Last(inv.received))
        THEN <<StreamErrorEvent(JsonLoads(Last(inv.received).data).exc)>>
        ELSE IF good # <<>> /\ ~IsDictEvent(Last(good)) /\ inv.pc # "yield_event"
        THEN <<StreamErrorEvent(GetStatus(Last(good)).exc)>>
        ELSE IF /\ inv.conn = "lost"
                /\ inv.pc \in {"yield_stream_error", "done"}
                /\ ~(good # <<>> /\ IsTerminalEvent(Last(good)))
        THEN <<StreamErrorEvent(ConnectionLostError)>>
        ELSE <<>>

\* What an invocation yields when it runs alone, as a function of its own
\* endpoint and of the responses the server gave to it: the outcome of its
\* POST and the messages read from its stream.
YieldsAlone(inv) ==
    IF inv.posts = <<>>
    THEN <<>>
    ELSE LET r == TryStartTask(client.base_url \o <<inv.endpoint>>,
                               inv.posts[1].outcome)
         IN  IF r.exc # NoException
             THEN (IF IsInstance(r.exc, "requests.exceptions.RequestException")
                   THEN <<StartErrorEvent(r.exc)>>
                   ELSE <<>>)
             ELSE GoodEvents(inv.received) \o OwnFaultEvents(inv)

\* An invocation used the client's configuration, and only its own data.
UsesOwnRequest(inv) ==
    /\ Len(inv.posts) <= 1
    /\ \A i \in 1..Len(inv.posts) :
          /\ inv.posts[i].url = client.base_url \o <<inv.call.endpoint>>
          /\ inv.posts[i].timeout = client.timeout
          /\ inv.posts[i].headers = client.headers
          /\ inv.posts[i].json = inv.payload
    /\ \A i \in 1..Len(inv.streams) :
          inv.streams[i] =
             client.base_url \o <<"/stream/", inv.posts[1].outcome.json["task_id"]>>

\* C16: no task invocation modifies the client configuration, and two
\* invocations on the same client whose steps interleave arbitrarily each
\* yield exactly the sequence they would yield alone against the same server
\* responses: a step of one leaves the other as it was, and each one's
\* requests and events are determined by its own arguments and responses.
C16_InvocationsIndependent ==
    /\ [][ /\ client' = client
           /\ other' # other => (other' = Current /\ Current' = other) ]_vars
    /\ [](\E b \in BaseUrls : client = NewClient(b))
    /\ [](\A inv \in {Current, other} :
             /\ UsesOwnRequest(inv)
             /\ inv.yielded = YieldsAlone(inv))

C16_Witness ==
    /\ pc = "yield_event"
    /\ other.pc = "reading"
    /\ endpoint = "/research/"
    /\ other.endpoint = "/chat/"
    /\ task_id = "task-2"
    /\ other.task_id = "task-1"
    /\ other.received # <<>>
    /\ yielded # <<>>
    /\ yielded # other.yielded

\* The generator is not running: it waits for the caller, or it has ended.
AtRest == pc \in Suspended \cup {"idle", "done", "raised", "closed"}

\* C21: the sequence is lazy.  Calling chat/research/hypotheses with valid
\* arguments issues no network request by itself; the initiation POST is
\* issued only when the caller pulls the first event; each further pushed
\* message is read only when the caller pulls the next event, with no
\* read-ahead: the non-empty messages read never outnumber the pulls, and
\* while the generator waits for a pull nothing is sent, read or yielded.
C21_SequenceIsLazy ==
    /\ [](pc = "created"
             => /\ pulls = 0
                /\ posts = <<>> /\ streams = <<>>
                /\ conn = "none" /\ received = <<>> /\ yielded = <<>>)
    /\ [](pulls = 0 => posts = <<>> /\ streams = <<>> /\ received = <<>>)
    /\ [](Len(RealMessages(received)) <= pulls /\ Len(yielded) <= pulls)
    /\ [](pc = "yield_event"
             => /\ Len(RealMessages(received)) = pulls
                /\ Len(yielded) = pulls
                /\ Last(received).data # KeepAlive
                /\ JsonLoads(Last(received).data).value = Last(yielded))
    /\ [][ /\ posts' # posts => (pc = "created" /\ pulls = 0 /\ pulls' = 1)
           /\ streams' # streams => ~AtRest
           /\ received' # received
                 => (~AtRest /\ Len(received') = Len(received) + 1)
           /\ (AtRest /\ pulls' = pulls)
                 => UNCHANGED <<posts, streams, received, yielded>> ]_vars

C21_Witness ==
    /\ pc = "yield_event"
    /\ pulls = 2
    /\ Len(yielded) = 2
    /\ Len(received) = 2
    /\ Len(inflight) = 1
    /\ Head(inflight).data # KeepAlive
    /\ Len(posts) = 1

====
